---- MODULE Spec2Model ----
(***************************************************************************)
(* Model of the calc_service orchestrator / storage / agent.               *)
(*                                                                         *)
(*   internal/orchestrator/orchestrator.go : HTTP handlers, Tasks          *)
(*   storage (unnamed/part_002, l.133-396) : SQL operations                *)
(*   agent   (unnamed/part_002, l.1-131)   : Worker loop, Calculations     *)
(*                                                                         *)
(* Numbers are float64 in the program; the model uses integers and only    *)
(* feeds it texts whose quotients are exact.  ParseAST and ASTNode are not *)
(* part of the available sources; the parser follows the grammar of the    *)
(* specification (section 4.1), the node fields follow their uses in       *)
(* Orchestrator.Tasks.                                                     *)
(***************************************************************************)
EXTENDS Integers, Sequences, FiniteSets, TLC

\* ------------------------------------------------------------------ bounds
MaxExprs == 1        \* calls of calculateHandler
NumWorkers == 2      \* agent goroutines (COMPUTING_POWER)
NumUsers == 1        \* registered users
MaxStoreExprs == 3   \* calls of calculateHandler when no agent runs
NumStoreUsers == 2   \* registered users when no agent runs
NumHandlers == 2     \* calls of calculateHandler that run at the same time
MaxRaceExprs == 2    \* calls of calculateHandler when they run at the same time

\* ------------------------------------------------------- expression texts
\* A text is a sequence of one-byte strings.
Texts ==
  << <<"2", "+", "2", "*", "2">>,
     <<"1", "0", "/", "0">>,
     <<"2", "+", "a">>,
     <<"(", "1", "+", "2", ")", "*", "(", "3", "+", "4", ")">>,
     <<"5">> >>

TextIds == 1..Len(Texts)

\* A nullable number (*float64, a REAL column): <<>> is nil / NULL, <<v>> is v.
NULL == <<>>
Some(v) == <<v>>

\* ------------------------------------------------------------- AST nodes
\* ASTNode: nodes live in a per-expression arena, Left/Right are indices
\* into it (0 is the nil pointer).
LeafNode(v) ==
  [IsLeaf |-> TRUE, Value |-> v, Operator |-> "", Left |-> 0, Right |-> 0,
   TaskScheduled |-> FALSE]

OpNode(op, l, r) ==
  [IsLeaf |-> FALSE, Value |-> 0, Operator |-> op, Left |-> l, Right |-> r,
   TaskScheduled |-> FALSE]

\* ---------------------------------------------------------------- parser
IsDigit(c) == c \in {"0", "1", "2", "3", "4", "5", "6", "7", "8", "9"}

DigitVal(c) ==
  CASE c = "0" -> 0 [] c = "1" -> 1 [] c = "2" -> 2 [] c = "3" -> 3
    [] c = "4" -> 4 [] c = "5" -> 5 [] c = "6" -> 6 [] c = "7" -> 7
    [] c = "8" -> 8 [] c = "9" -> 9

\* A parse result: on success the arena, the root index and the next
\* position (1-based); on failure the error kind and the 0-based offset.
ParseOk(nodes, root, pos) ==
  [ok |-> TRUE, nodes |-> nodes, root |-> root, pos |-> pos, kind |-> ""]

ParseError(kind, pos) ==
  [ok |-> FALSE, nodes |-> <<>>, root |-> 0, pos |-> pos - 1, kind |-> kind]

\* Bind(v, F) is F(v) with v evaluated once.
Bind(v, F(_)) == CHOOSE x \in {F(y) : y \in {v}} : TRUE

RECURSIVE ParseNumber(_, _, _)
ParseNumber(text, pos, acc) ==
  IF pos <= Len(text) /\ IsDigit(text[pos])
  THEN ParseNumber(text, pos + 1, 10 * acc + DigitVal(text[pos]))
  ELSE [value |-> acc, pos |-> pos]

RECURSIVE ParseExpr(_, _, _)
RECURSIVE ParseTerm(_, _, _)
RECURSIVE ParseFactor(_, _, _)
RECURSIVE ParseExprRest(_, _)
RECURSIVE ParseTermRest(_, _)

\* Factor := number | "(" Expr ")"
ParseFactor(text, pos, nodes) ==
  IF pos > Len(text)
  THEN ParseError(IF Len(text) = 0 THEN "EmptyInput" ELSE "ExpectedOperand", pos)
  ELSE IF text[pos] = "("
  THEN Bind(ParseExpr(text, pos + 1, nodes), LAMBDA r :
         IF ~r.ok THEN r
         ELSE IF r.pos > Len(text) \/ text[r.pos] # ")"
         THEN ParseError("UnbalancedParens", r.pos)
         ELSE ParseOk(r.nodes, r.root, r.pos + 1))
  ELSE IF IsDigit(text[pos])
  THEN Bind(ParseNumber(text, pos, 0), LAMBDA n :
         ParseOk(Append(nodes, LeafNode(n.value)), Len(nodes) + 1, n.pos))
  ELSE ParseError("ExpectedOperand", pos)

\* Term := Factor (("*" | "/") Factor)*, left-associative
ParseTermRest(text, left) ==
  IF left.pos <= Len(text) /\ text[left.pos] \in {"*", "/"}
  THEN Bind(ParseFactor(text, left.pos + 1, left.nodes), LAMBDA r :
         IF ~r.ok THEN r
         ELSE Bind(ParseOk(Append(r.nodes, OpNode(text[left.pos], left.root, r.root)),
                           Len(r.nodes) + 1, r.pos),
                   LAMBDA l : ParseTermRest(text, l)))
  ELSE left

ParseTerm(text, pos, nodes) ==
  Bind(ParseFactor(text, pos, nodes), LAMBDA f :
    IF ~f.ok THEN f ELSE ParseTermRest(text, f))

\* Expr := Term (("+" | "-") Term)*, left-associative
ParseExprRest(text, left) ==
  IF left.pos <= Len(text) /\ text[left.pos] \in {"+", "-"}
  THEN Bind(ParseTerm(text, left.pos + 1, left.nodes), LAMBDA r :
         IF ~r.ok THEN r
         ELSE Bind(ParseOk(Append(r.nodes, OpNode(text[left.pos], left.root, r.root)),
                           Len(r.nodes) + 1, r.pos),
                   LAMBDA l : ParseExprRest(text, l)))
  ELSE left

ParseExpr(text, pos, nodes) ==
  Bind(ParseTerm(text, pos, nodes), LAMBDA t :
    IF ~t.ok THEN t ELSE ParseExprRest(text, t))

ParseAST(text) ==
  Bind(ParseExpr(text, 1, <<>>), LAMBDA r :
    IF ~r.ok THEN r
    ELSE IF r.pos <= Len(text)
    THEN ParseError(IF text[r.pos] = ")" THEN "UnbalancedParens"
                    ELSE IF IsDigit(text[r.pos]) \/ text[r.pos] = "("
                    THEN "ExpectedOperator" ELSE "UnexpectedToken", r.pos)
    ELSE r)

\* err.Error() of a failed parse: the text, and the offset where it has one.
ErrorText(r) ==
  CASE r.kind = "ExpectedOperand" -> <<"expected number at position", r.pos>>
    [] r.kind = "UnexpectedToken" -> <<"Invalid token">>
    [] OTHER -> <<r.kind, r.pos>>

\* ----------------------------------------------------------- configuration
\* strconv.Atoi of the environment variable; an unset or malformed variable
\* gives 0.  EnvValues are the values the four TIME_*_MS variables take:
\* a negative one, unset or zero, a positive one.
EnvValues == {-5, 0, 7}

DefaultOpTime == 100

Configuration(env) ==
  [TimeAddition        |-> IF env.ta = 0 THEN DefaultOpTime ELSE env.ta,
   TimeSubtraction     |-> IF env.ts = 0 THEN DefaultOpTime ELSE env.ts,
   TimeMultiplications |-> IF env.tm = 0 THEN DefaultOpTime ELSE env.tm,
   TimeDivisions       |-> IF env.td = 0 THEN DefaultOpTime ELSE env.td]

\* ------------------------------------------------------------------ state
VARIABLES
  Config,        \* Orchestrator.Config
  expressions,   \* table expressions, row i has id i
  tasks,         \* table tasks, row i has id i
  exprStore,     \* Orchestrator.exprStore: id -> Expression
  exprAST,       \* the AST calculateHandler attached to expression i
  taskStore,     \* Orchestrator.taskStore, task i has ID i
  taskQueue,     \* Orchestrator.taskQueue, ids of the tasks it points to
  taskCounter,   \* Orchestrator.taskCounter
  pc,            \* position of each Agent.Worker in its loop
  wtask,         \* the task a worker holds
  wresult,       \* the value a worker computed
  persisted,     \* ids of the taskStore tasks Storage.CreateTask was called with
  fetched,       \* how often GetPendingTask returned each task id (0, 1, 2 = more)
  failed,        \* ids of the tasks a worker logged "error computing task" for
  inflight,      \* the calls of calculateHandler that run at the same time
  resp           \* the last HTTP response written

vars == <<Config, expressions, tasks, exprStore, exprAST, taskStore, taskQueue,
          taskCounter, pc, wtask, wresult, persisted, fetched, failed, inflight,
          resp>>

Workers == 1..NumWorkers
UserIDs == 1..NumUsers

\* values an external caller of POST /internal/task sends as result
SubmitValues == {9}

\* task ids a caller of POST /internal/task sends: those of the rows the
\* decomposed expressions can give, and one more that no row ever has
MaxTaskRows == 2 * MaxExprs
RequestIds == 1..(MaxTaskRows + 1)

\* a goroutine of the HTTP server that serves no calculateHandler call
Handlers == 1..NumHandlers
Idle == [pc |-> "idle", exprID |-> 0, todo |-> <<>>]

NoTask == [Id |-> 0, Arg1 |-> 0, Arg2 |-> 0, Operation |-> "", OperationTime |-> 0]
NoResp == [handler |-> "", code |-> 0, id |-> 0, error |-> "", body |-> NULL]

\* an answer without a payload: http.Error, or a fixed acknowledgment
Response(handler, code, id, error) ==
  [handler |-> handler, code |-> code, id |-> id, error |-> error, body |-> NULL]

\* an answer whose JSON payload is body
ResponseBody(handler, code, id, body) ==
  [handler |-> handler, code |-> code, id |-> id, error |-> "", body |-> Some(body)]

Init ==
  /\ Config \in {Configuration([ta |-> v, ts |-> v, tm |-> v, td |-> v]) : v \in EnvValues}
  /\ expressions = <<>>
  /\ tasks = <<>>
  /\ exprStore = <<>>
  /\ exprAST = <<>>
  /\ taskStore = <<>>
  /\ taskQueue = <<>>
  /\ taskCounter = 0
  /\ pc = [w \in Workers |-> "GetTask"]
  /\ wtask = [w \in Workers |-> NoTask]
  /\ wresult = [w \in Workers |-> 0]
  /\ persisted = {}
  /\ fetched = <<>>
  /\ failed = {}
  /\ inflight = [h \in Handlers |-> Idle]
  /\ resp = NoResp

\* ---------------------------------------------------------------- storage
\* Storage.CreateExpression: INSERT ... RETURNING id
CreateExpression(tbl, userID, text) ==
  Append(tbl, [user_id |-> userID, expression |-> text, status |-> "pending",
               result |-> NULL, created_at |-> Len(tbl) + 1])

\* Storage.UpdateExpression: UPDATE ... WHERE id = ? AND user_id = ?
UpdateExpression(tbl, e) ==
  [i \in DOMAIN tbl |->
     IF i = e.ID /\ tbl[i].user_id = e.UserID
     THEN [tbl[i] EXCEPT !.status = e.Status, !.result = e.Result]
     ELSE tbl[i]]

\* The rows ordered by created_at ascending, oldest first.
RECURSIVE OrderByCreatedAtAsc(_, _)
OrderByCreatedAtAsc(tbl, rows) ==
  IF rows = {} THEN <<>>
  ELSE LET m == CHOOSE i \in rows :
                  \A j \in rows : tbl[i].created_at <= tbl[j].created_at
       IN  <<m>> \o OrderByCreatedAtAsc(tbl, rows \ {m})

\* Storage.GetExpressions: SELECT ... WHERE user_id = ? ORDER BY created_at DESC
RECURSIVE OrderByCreatedAtDesc(_, _)
OrderByCreatedAtDesc(tbl, rows) ==
  IF rows = {} THEN <<>>
  ELSE LET m == CHOOSE i \in rows :
                  \A j \in rows : tbl[j].created_at <= tbl[i].created_at
       IN  <<m>> \o OrderByCreatedAtDesc(tbl, rows \ {m})

GetExpressions(tbl, userID) ==
  LET ids == OrderByCreatedAtDesc(tbl, {i \in DOMAIN tbl : tbl[i].user_id = userID})
  IN  [k \in DOMAIN ids |->
         [ID |-> ids[k], UserID |-> userID, Expression |-> tbl[ids[k]].expression,
          Status |-> tbl[ids[k]].status, Result |-> tbl[ids[k]].result,
          CreatedAt |-> tbl[ids[k]].created_at]]

\* Storage.CreateTask: INSERT INTO tasks (completed defaults to FALSE)
CreateTaskRow(t) ==
  [expression_id |-> t.ExprID, arg1 |-> t.Arg1, arg2 |-> t.Arg2,
   operation |-> t.Operation, operation_time |-> t.OperationTime,
   completed |-> FALSE, result |-> NULL, started |-> FALSE, lockedBy |-> 0]

\* The row GetPendingTask's SELECT returns: not completed, not locked by
\* another transaction, first by (e.created_at, t.id); 0 if there is none.
PendingRows(tbl) ==
  {i \in DOMAIN tbl : ~tbl[i].completed /\ tbl[i].lockedBy = 0}

Before(tbl, etbl, i, j) ==
  \/ etbl[tbl[i].expression_id].created_at < etbl[tbl[j].expression_id].created_at
  \/ /\ etbl[tbl[i].expression_id].created_at = etbl[tbl[j].expression_id].created_at
     /\ i < j

SelectPendingTask(tbl, etbl) ==
  IF PendingRows(tbl) = {} THEN 0
  ELSE CHOOSE i \in PendingRows(tbl) :
         \A j \in PendingRows(tbl) \ {i} : Before(tbl, etbl, i, j)

TaskDTO(tbl, i) ==
  [Id |-> i, Arg1 |-> tbl[i].arg1, Arg2 |-> tbl[i].arg2,
   Operation |-> tbl[i].operation, OperationTime |-> tbl[i].operation_time]

Bump(f, i) == [f EXCEPT ![i] = IF @ < 2 THEN @ + 1 ELSE 2]

\* Storage.CompleteTask.  ok = FALSE is the error return: db.Begin failed
\* (dbOk = FALSE), or the UPDATE ... RETURNING scan found no row; the
\* transaction is then rolled back.
PendingCount(tbl, exprID) ==
  Cardinality({i \in DOMAIN tbl : tbl[i].expression_id = exprID /\ ~tbl[i].completed})

\* CompleteTask as it would be if it wrote the status on every call:
\* 'completed' with no task left, 'pending' otherwise.
CompleteTaskRewritesStatus(tbl, etbl, taskID, result, dbOk) ==
  IF ~dbOk \/ taskID \notin DOMAIN tbl
  THEN [ok |-> FALSE, tasks |-> tbl, expressions |-> etbl]
  ELSE LET t2 == [tbl EXCEPT ![taskID].completed = TRUE, ![taskID].result = Some(result)]
           exprID == tbl[taskID].expression_id
       IN  [ok |-> TRUE, tasks |-> t2,
            expressions |->
              [etbl EXCEPT ![exprID].status =
                 IF PendingCount(t2, exprID) = 0 THEN "completed" ELSE "pending"]]

CompleteTask(tbl, etbl, taskID, result, dbOk) ==
  IF ~dbOk \/ taskID \notin DOMAIN tbl
  THEN [ok |-> FALSE, tasks |-> tbl, expressions |-> etbl]
  ELSE LET t2 == [tbl EXCEPT ![taskID].completed = TRUE, ![taskID].result = Some(result)]
           exprID == tbl[taskID].expression_id
       IN  [ok |-> TRUE, tasks |-> t2,
            expressions |->
              IF PendingCount(t2, exprID) = 0
              THEN [etbl EXCEPT ![exprID].status = "completed"]
              ELSE etbl]

\* ------------------------------------------------------------- decomposer
OpTime(cfg, op) ==
  CASE op = "+" -> cfg.TimeAddition
    [] op = "-" -> cfg.TimeSubtraction
    [] op = "*" -> cfg.TimeMultiplications
    [] op = "/" -> cfg.TimeDivisions
    [] OTHER -> 100

\* The Task literal built for node n; its id is the incremented counter.
NewTask(st, cfg, exprID, n) ==
  [ID |-> st.taskCounter + 1, ExprID |-> exprID,
   Arg1 |-> st.nodes[st.nodes[n].Left].Value,
   Arg2 |-> st.nodes[st.nodes[n].Right].Value,
   Operation |-> st.nodes[n].Operator,
   OperationTime |-> OpTime(cfg, st.nodes[n].Operator),
   Node |-> n]

\* o.taskCounter++, node.TaskScheduled = true, the store and the queue get the task
Scheduled(st, cfg, exprID, n) ==
  [nodes |-> [st.nodes EXCEPT ![n].TaskScheduled = TRUE],
   taskCounter |-> st.taskCounter + 1,
   taskStore |-> Append(st.taskStore, NewTask(st, cfg, exprID, n)),
   taskQueue |-> Append(st.taskQueue, st.taskCounter + 1)]

\* visit as it would be without the TaskScheduled flag
visitUnscheduled(st, cfg, exprID, n) ==
  LET node == st.nodes[n]
  IN  IF /\ node.Left # 0 /\ node.Right # 0
         /\ st.nodes[node.Left].IsLeaf /\ st.nodes[node.Right].IsLeaf
      THEN Scheduled(st, cfg, exprID, n)
      ELSE st

\* visit as it would be without the test that both children are leaves
visitAnyChildren(st, cfg, exprID, n) ==
  LET node == st.nodes[n]
  IN  IF node.Left # 0 /\ node.Right # 0 /\ ~node.TaskScheduled
      THEN Scheduled(st, cfg, exprID, n)
      ELSE st

\* Orchestrator.Tasks: st carries the arena of the expression and the
\* orchestrator's counter, store and queue through the traversal.
\* visit is the body of traverse after the two recursive calls.
visit(st, cfg, exprID, n) ==
  LET node == st.nodes[n]
  IN  IF /\ node.Left # 0 /\ node.Right # 0
         /\ st.nodes[node.Left].IsLeaf /\ st.nodes[node.Right].IsLeaf
         /\ ~node.TaskScheduled
      THEN Scheduled(st, cfg, exprID, n)
      ELSE st

\* traverse as it would be if it went into the right child first
RECURSIVE traverseRightFirst(_, _, _, _)
traverseRightFirst(st, cfg, exprID, n) ==
  IF n = 0 \/ st.nodes[n].IsLeaf THEN st
  ELSE Bind(traverseRightFirst(st, cfg, exprID, st.nodes[n].Right), LAMBDA s1 :
         Bind(traverseRightFirst(s1, cfg, exprID, s1.nodes[n].Left), LAMBDA s2 :
           visit(s2, cfg, exprID, n)))

RECURSIVE traverse(_, _, _, _)
traverse(st, cfg, exprID, n) ==
  IF n = 0 \/ st.nodes[n].IsLeaf THEN st
  ELSE Bind(traverse(st, cfg, exprID, st.nodes[n].Left), LAMBDA s1 :
         Bind(traverse(s1, cfg, exprID, s1.nodes[n].Right), LAMBDA s2 :
           visit(s2, cfg, exprID, n)))

Tasks(cfg, exprID, ast, counter, store, queue) ==
  traverse([nodes |-> ast.nodes, taskCounter |-> counter, taskStore |-> store,
            taskQueue |-> queue], cfg, exprID, ast.root)

\* the nodes below n, children before their parent, left before right
RECURSIVE PostOrder(_, _)
PostOrder(nodes, n) ==
  IF n = 0 THEN <<>>
  ELSE IF nodes[n].IsLeaf THEN <<n>>
  ELSE PostOrder(nodes, nodes[n].Left) \o PostOrder(nodes, nodes[n].Right) \o <<n>>

\* The nodes one run of Tasks schedules, in the order traverse reaches them.
ReadyNodes(nodes, root) ==
  SelectSeq(PostOrder(nodes, root),
            LAMBDA n : /\ ~nodes[n].IsLeaf
                       /\ nodes[nodes[n].Left].IsLeaf /\ nodes[nodes[n].Right].IsLeaf
                       /\ ~nodes[n].TaskScheduled)

\* ------------------------------------------------------------------ agent
\* Calculations as it would be if a division by zero gave 0 and no error
CalculationsDivZeroIsZero(operation, a, b) ==
  CASE operation = "+" -> [err |-> FALSE, value |-> a + b]
    [] operation = "-" -> [err |-> FALSE, value |-> a - b]
    [] operation = "*" -> [err |-> FALSE, value |-> a * b]
    [] operation = "/" -> [err |-> FALSE, value |-> IF b = 0 THEN 0 ELSE a \div b]
    [] OTHER -> [err |-> TRUE, value |-> 0]

\* Calculations: err = TRUE for division by zero and unknown operators.
Calculations(operation, a, b) ==
  CASE operation = "+" -> [err |-> FALSE, value |-> a + b]
    [] operation = "-" -> [err |-> FALSE, value |-> a - b]
    [] operation = "*" -> [err |-> FALSE, value |-> a * b]
    [] operation = "/" -> IF b = 0 THEN [err |-> TRUE, value |-> 0]
                          ELSE [err |-> FALSE, value |-> a \div b]
    [] OTHER -> [err |-> TRUE, value |-> 0]

\* ---------------------------------------------------------- HTTP handlers
\* calculateHandler as it would be if it answered a parse error with 500
calculateHandlerInternalError(userID, text) ==
  /\ LET created == CreateExpression(expressions, userID, text)
         id == Len(created)
         ast == ParseAST(Texts[text])
     IN  IF ~ast.ok
         THEN /\ expressions' =
                   UpdateExpression(created, [ID |-> id, Status |-> "error",
                                              Result |-> NULL, UserID |-> 0])
              /\ exprAST' = Append(exprAST, [nodes |-> <<>>, root |-> 0])
              /\ resp' = Response("calculate", 500, id, ErrorText(ast))
              /\ UNCHANGED <<taskStore, taskQueue, taskCounter>>
         ELSE LET st == Tasks(Config, id, ast, taskCounter, taskStore, taskQueue)
              IN  /\ expressions' = created
                  /\ exprAST' = Append(exprAST, [nodes |-> st.nodes, root |-> ast.root])
                  /\ taskCounter' = st.taskCounter
                  /\ taskStore' = st.taskStore
                  /\ taskQueue' = st.taskQueue
                  /\ resp' = Response("calculate", 201, id, "")
  /\ UNCHANGED <<Config, inflight, tasks, exprStore, pc, wtask, wresult, fetched, persisted, failed>>

\* POST /api/v1/calculate
calculateHandler(userID, text) ==
  /\ LET created == CreateExpression(expressions, userID, text)
         id == Len(created)
         ast == ParseAST(Texts[text])
     IN  IF ~ast.ok
         THEN /\ expressions' =
                   UpdateExpression(created, [ID |-> id, Status |-> "error",
                                              Result |-> NULL, UserID |-> 0])
              /\ exprAST' = Append(exprAST, [nodes |-> <<>>, root |-> 0])
              /\ resp' = Response("calculate", 422, id, ErrorText(ast))
              /\ UNCHANGED <<taskStore, taskQueue, taskCounter>>
         ELSE LET st == Tasks(Config, id, ast, taskCounter, taskStore, taskQueue)
              IN  /\ expressions' = created
                  /\ exprAST' = Append(exprAST, [nodes |-> st.nodes, root |-> ast.root])
                  /\ taskCounter' = st.taskCounter
                  /\ taskStore' = st.taskStore
                  /\ taskQueue' = st.taskQueue
                  /\ resp' = Response("calculate", 201, id, "")
  /\ UNCHANGED <<Config, inflight, tasks, exprStore, pc, wtask, wresult, fetched, persisted, failed>>

\* GET /api/v1/expressions
expressionsHandler(userID) ==
  /\ resp' = ResponseBody("expressions", 200, 0, GetExpressions(expressions, userID))
  /\ UNCHANGED <<Config, inflight, expressions, tasks, exprStore, exprAST, taskStore,
                 taskQueue, taskCounter, pc, wtask, wresult, fetched, persisted,
                 failed>>

\* expressionIDHandler as it would be if it marked the stored row completed
expressionIDHandlerMarksCompleted(id) ==
  /\ expressions' = [i \in DOMAIN expressions |->
                       IF i = id THEN [expressions[i] EXCEPT !.status = "completed"]
                       ELSE expressions[i]]
  /\ resp' = Response("expression", 404, id, "Expression not found")
  /\ UNCHANGED <<Config, inflight, exprStore, tasks, exprAST, taskStore, taskQueue,
                 taskCounter, pc, wtask, wresult, fetched, persisted, failed>>

\* GET /api/v1/expressions/{id}
expressionIDHandler(id) ==
  /\ IF id \notin DOMAIN exprStore
     THEN /\ resp' = Response("expression", 404, id, "Expression not found")
          /\ UNCHANGED exprStore
     ELSE LET expr == exprStore[id]
              leaf == expr.AST.root # 0 /\ expr.AST.nodes[expr.AST.root].IsLeaf
          IN  /\ exprStore' =
                   IF leaf
                   THEN [exprStore EXCEPT ![id].Status = "completed",
                           ![id].Result = Some(expr.AST.nodes[expr.AST.root].Value)]
                   ELSE exprStore
              /\ resp' = ResponseBody("expression", 200, id,
                                      [Status |-> exprStore'[id].Status,
                                       Result |-> exprStore'[id].Result])
  /\ UNCHANGED <<Config, inflight, expressions, tasks, exprAST, taskStore, taskQueue,
                 taskCounter, pc, wtask, wresult, fetched, persisted, failed>>

\* GET /internal/task: Storage.GetPendingTask in one transaction
getTaskHandler ==
  /\ LET i == SelectPendingTask(tasks, expressions)
     IN  IF i = 0
         THEN /\ resp' = Response("getTask", 404, 0, "No task available")
              /\ UNCHANGED <<tasks, fetched>>
         ELSE /\ tasks' = [tasks EXCEPT ![i].started = TRUE]
              /\ fetched' = Bump(fetched, i)
              /\ resp' = Response("getTask", 200, i, "")
  /\ UNCHANGED <<Config, inflight, expressions, exprStore, exprAST, taskStore, taskQueue,
                 taskCounter, pc, wtask, wresult, persisted, failed>>

\* POST /internal/task.  The UPDATE waits while a GetPendingTask
\* transaction holds the row.
postTaskHandler(id, result, dbOk) ==
  /\ id \in DOMAIN tasks => tasks[id].lockedBy = 0
  /\ LET r == CompleteTask(tasks, expressions, id, result, dbOk)
     IN  /\ tasks' = r.tasks
         /\ expressions' = r.expressions
         /\ resp' = IF r.ok THEN Response("postTask", 200, id, "")
                    ELSE Response("postTask", 500, id, "Failed to complete task")
  /\ UNCHANGED <<Config, inflight, exprStore, exprAST, taskStore, taskQueue, taskCounter,
                 pc, wtask, wresult, fetched, persisted, failed>>

\* Storage.CreateTask.  No caller of it is among the available sources; the
\* model lets it be called, at any moment, once with each task the
\* decomposer has built (the only orchestrator.Task values the program makes).
CreateTask ==
  /\ \E t \in DOMAIN taskStore \ persisted :
       /\ tasks' = Append(tasks, CreateTaskRow(taskStore[t]))
       /\ persisted' = persisted \cup {t}
  /\ fetched' = Append(fetched, 0)
  /\ UNCHANGED <<Config, inflight, expressions, exprStore, exprAST, taskStore, taskQueue,
                 taskCounter, pc, wtask, wresult, failed, resp>>

\* ----------------------------------------------------------- Agent.Worker
\* GetTask, first half of Storage.GetPendingTask: SELECT ... FOR UPDATE SKIP
\* LOCKED.  With no row the call returns the storage's "not found" as an
\* rpc error (README, output of an idle agent): the worker logs "error
\* getting task" and sleeps the two seconds of a failed request.
WorkerGetTask(w) ==
  /\ pc[w] = "GetTask"
  /\ LET i == SelectPendingTask(tasks, expressions)
     IN  IF i = 0
         THEN /\ pc' = [pc EXCEPT ![w] = "SleepError"]
              /\ UNCHANGED <<tasks, wtask>>
         ELSE /\ tasks' = [tasks EXCEPT ![i].lockedBy = w]
              /\ wtask' = [wtask EXCEPT ![w] = TaskDTO(tasks, i)]
              /\ pc' = [pc EXCEPT ![w] = "Commit"]
  /\ UNCHANGED <<Config, inflight, expressions, exprStore, exprAST, taskStore, taskQueue,
                 taskCounter, wresult, fetched, resp, persisted, failed>>

\* time.Sleep (two seconds after an error, one after an empty task), then
\* the next turn of the loop
WorkerSleep(w) ==
  /\ pc[w] \in {"SleepError", "SleepEmpty"}
  /\ pc' = [pc EXCEPT ![w] = "GetTask"]
  /\ UNCHANGED <<Config, inflight, expressions, tasks, exprStore, exprAST, taskStore,
                 taskQueue, taskCounter, wtask, wresult, fetched, resp, persisted, failed>>

\* second half: UPDATE tasks SET started_at = NOW(); COMMIT; the task is
\* returned; a task with an empty id sends the worker to its one-second sleep
WorkerCommit(w) ==
  /\ pc[w] = "Commit"
  /\ tasks' = [tasks EXCEPT ![wtask[w].Id].started = TRUE, ![wtask[w].Id].lockedBy = 0]
  /\ fetched' = Bump(fetched, wtask[w].Id)
  /\ pc' = [pc EXCEPT ![w] = IF wtask[w].Id = 0 THEN "SleepEmpty" ELSE "Calculate"]
  /\ UNCHANGED <<Config, inflight, expressions, exprStore, exprAST, taskStore, taskQueue,
                 taskCounter, wtask, wresult, resp, persisted, failed>>

\* time.Sleep(OperationTime); Calculations; on error log and continue
WorkerCalculate(w) ==
  /\ pc[w] = "Calculate"
  /\ LET r == Calculations(wtask[w].Operation, wtask[w].Arg1, wtask[w].Arg2)
     IN  IF r.err
         THEN /\ pc' = [pc EXCEPT ![w] = "GetTask"]
              /\ wtask' = [wtask EXCEPT ![w] = NoTask]
              /\ failed' = failed \cup {wtask[w].Id}
              /\ UNCHANGED wresult
         ELSE /\ pc' = [pc EXCEPT ![w] = "SubmitResult"]
              /\ wresult' = [wresult EXCEPT ![w] = r.value]
              /\ UNCHANGED <<wtask, failed>>
  /\ UNCHANGED <<Config, inflight, expressions, tasks, exprStore, exprAST, taskStore,
                 taskQueue, taskCounter, fetched, resp, persisted>>

\* SubmitResult: Storage.CompleteTask; the loop continues on either outcome.
\* ok = FALSE is a request that fails before it reaches the storage: the
\* worker logs "error submitting result" and continues.
WorkerSubmitResult(w, ok) ==
  /\ pc[w] = "SubmitResult"
  /\ wtask[w].Id \in DOMAIN tasks => tasks[wtask[w].Id].lockedBy = 0
  /\ LET r == CompleteTask(tasks, expressions, wtask[w].Id, wresult[w], ok)
     IN  /\ tasks' = r.tasks
         /\ expressions' = r.expressions
  /\ pc' = [pc EXCEPT ![w] = "GetTask"]
  /\ wtask' = [wtask EXCEPT ![w] = NoTask]
  /\ wresult' = [wresult EXCEPT ![w] = 0]
  /\ UNCHANGED <<Config, inflight, exprStore, exprAST, taskStore, taskQueue, taskCounter,
                 fetched, resp, persisted, failed>>

Worker(w) ==
  \/ WorkerGetTask(w)
  \/ WorkerSleep(w)
  \/ WorkerCommit(w)
  \/ WorkerCalculate(w)
  \/ \E ok \in BOOLEAN : WorkerSubmitResult(w, ok)

\* ---------------------------------------------------------- specification
Next ==
  \/ \E u \in UserIDs, text \in TextIds :
       Len(expressions) < MaxExprs /\ calculateHandler(u, text)
  \/ \E u \in UserIDs : expressionsHandler(u)
  \/ \E id \in 1..MaxExprs : expressionIDHandler(id)
  \/ getTaskHandler
  \/ \E id \in RequestIds, v \in SubmitValues, dbOk \in BOOLEAN :
       postTaskHandler(id, v, dbOk)
  \/ CreateTask
  \/ \E w \in Workers : Worker(w)

Spec == Init /\ [][Next]_vars

\* The agent's goroutines keep running their loops.
FairSpec == Spec /\ \A w \in Workers : WF_vars(Worker(w))

\* The orchestrator and its storage with no agent running: more users and
\* more expressions, the texts "2+2*2" and "2+a", no TIME_*_MS variable set.
StoreUserIDs == 1..NumStoreUsers
StoreTextIds == {1, 3}

StoreNext ==
  \/ \E u \in StoreUserIDs, text \in StoreTextIds :
       Len(expressions) < MaxStoreExprs /\ calculateHandler(u, text)
  \/ \E u \in StoreUserIDs : expressionsHandler(u)
  \/ \E id \in 1..MaxStoreExprs : expressionIDHandler(id)
  \/ getTaskHandler
  \/ \E id \in 1..(MaxStoreExprs + 1), v \in SubmitValues, dbOk \in BOOLEAN :
       postTaskHandler(id, v, dbOk)
  \/ CreateTask

StoreInit ==
  /\ Init
  /\ Config = Configuration([ta |-> 0, ts |-> 0, tm |-> 0, td |-> 0])

StoreSpec == StoreInit /\ [][StoreNext]_vars

\* ------------------------------------------- concurrent calculateHandler
\* net/http serves every request in its own goroutine, and neither
\* calculateHandler nor Tasks takes o.mu.  A call is cut where it reads or
\* writes the orchestrator's shared fields: after CreateExpression and
\* ParseAST, after o.taskCounter++, and after the task is stored and queued.
RaceTextIds == {1, 4}

calculateHandlerBegin(h, userID, text) ==
  /\ inflight[h].pc = "idle"
  /\ Len(expressions) < MaxRaceExprs
  /\ LET ast == ParseAST(Texts[text])
     IN  /\ expressions' = CreateExpression(expressions, userID, text)
         /\ exprAST' = Append(exprAST, [nodes |-> ast.nodes, root |-> ast.root])
         /\ inflight' = [inflight EXCEPT ![h] =
                           [pc |-> "traverse", exprID |-> Len(expressions) + 1,
                            todo |-> ReadyNodes(ast.nodes, ast.root)]]
  /\ UNCHANGED <<Config, tasks, exprStore, taskStore, taskQueue, taskCounter, pc,
                 wtask, wresult, persisted, fetched, failed, resp>>

\* o.taskCounter++
TasksIncrement(h) ==
  /\ inflight[h].pc = "traverse"
  /\ inflight[h].todo # <<>>
  /\ taskCounter' = taskCounter + 1
  /\ inflight' = [inflight EXCEPT ![h].pc = "store"]
  /\ UNCHANGED <<Config, expressions, tasks, exprStore, exprAST, taskStore,
                 taskQueue, pc, wtask, wresult, persisted, fetched, failed, resp>>

\* taskID := fmt.Sprintf("%d", o.taskCounter) reads the counter again; the
\* task is built, the node marked, the map written and the queue appended.
TasksStore(h) ==
  /\ inflight[h].pc = "store"
  /\ LET e == inflight[h].exprID
         n == Head(inflight[h].todo)
         task == [NewTask([nodes |-> exprAST[e].nodes, taskCounter |-> taskCounter],
                          Config, e, n) EXCEPT !.ID = taskCounter]
     IN  /\ exprAST' = [exprAST EXCEPT ![e].nodes[n].TaskScheduled = TRUE]
         /\ taskStore' = [id \in DOMAIN taskStore \cup {taskCounter} |->
                            IF id = taskCounter THEN task ELSE taskStore[id]]
         /\ taskQueue' = Append(taskQueue, taskCounter)
  /\ inflight' = [inflight EXCEPT ![h].pc = "traverse", ![h].todo = Tail(@)]
  /\ UNCHANGED <<Config, expressions, tasks, exprStore, taskCounter, pc, wtask,
                 wresult, persisted, fetched, failed, resp>>

\* traverse is through: 201 with the id
calculateHandlerReturn(h) ==
  /\ inflight[h].pc = "traverse"
  /\ inflight[h].todo = <<>>
  /\ resp' = Response("calculate", 201, inflight[h].exprID, "")
  /\ inflight' = [inflight EXCEPT ![h] = Idle]
  /\ UNCHANGED <<Config, expressions, tasks, exprStore, exprAST, taskStore,
                 taskQueue, taskCounter, pc, wtask, wresult, persisted, fetched,
                 failed>>

RaceNext ==
  \E h \in Handlers :
    \/ \E u \in UserIDs, text \in RaceTextIds : calculateHandlerBegin(h, u, text)
    \/ TasksIncrement(h)
    \/ TasksStore(h)
    \/ calculateHandlerReturn(h)

RaceSpec == StoreInit /\ [][RaceNext]_vars

\* ======================================================================
\* Properties
\* ======================================================================
ExprIds == 1..MaxExprs

\* The value of a parsed AST by ordinary arithmetic: every operator node is
\* left op right; err = TRUE when some division divides by zero.
Arith(op, a, b) ==
  IF a.err \/ b.err \/ (op = "/" /\ b.value = 0) THEN [err |-> TRUE, value |-> 0]
  ELSE [err |-> FALSE,
        value |-> CASE op = "+" -> a.value + b.value
                    [] op = "-" -> a.value - b.value
                    [] op = "*" -> a.value * b.value
                    [] op = "/" -> a.value \div b.value]

RECURSIVE EvalNode(_, _)
EvalNode(nodes, n) ==
  IF nodes[n].IsLeaf THEN [err |-> FALSE, value |-> nodes[n].Value]
  ELSE Bind(EvalNode(nodes, nodes[n].Left), LAMBDA a :
         Bind(EvalNode(nodes, nodes[n].Right), LAMBDA b :
           Arith(nodes[n].Operator, a, b)))

Parsed(e) == ParseAST(Texts[expressions[e].expression])
Valid(e) == Parsed(e).ok
Value(e) == EvalNode(Parsed(e).nodes, Parsed(e).root)
OperatorNodes(e) == {n \in DOMAIN Parsed(e).nodes : ~Parsed(e).nodes[n].IsLeaf}
CreatedTasks(e) == {t \in DOMAIN taskStore : taskStore[t].ExprID = e}
DBTasksOf(e) == {t \in DOMAIN tasks : tasks[t].expression_id = e}

\* every result stored for a task of e is the value of arg1 op arg2
ResultsComputed(e) ==
  \A t \in DBTasksOf(e) :
    tasks[t].completed =>
      LET r == Calculations(tasks[t].operation, tasks[t].arg1, tasks[t].arg2)
      IN  ~r.err /\ tasks[t].result = Some(r.value)

\* a stored expression that parses and whose evaluation never divides by zero
Computable(e) ==
  IF e \in DOMAIN expressions THEN Valid(e) /\ ~Value(e).err ELSE FALSE

Status(e) == IF e \in DOMAIN expressions THEN expressions[e].status ELSE "none"

\* C1: under fair worker steps every valid expression without a division by
\* zero eventually has status completed.
C1_EventuallyCompleted ==
  \A e \in ExprIds : Computable(e) ~> (Status(e) = "completed")

\* C2: a completed expression carries as result the arithmetic value of its
\* parsed AST ("2+2*2" gives 6).
C2_CompletedResultIsValue ==
  \A e \in DOMAIN expressions :
    (expressions[e].status = "completed" /\ ResultsComputed(e)) =>
      /\ Valid(e) /\ ~Value(e).err
      /\ expressions[e].result = Some(Value(e).value)

\* C3: the tasks created for an expression never outnumber its operator
\* nodes, and a completed expression has exactly one task per operator node.
C3_TasksEqualOperatorNodes ==
  \A e \in DOMAIN expressions :
    Valid(e) =>
      /\ Cardinality(CreatedTasks(e)) <= Cardinality(OperatorNodes(e))
      /\ (expressions[e].status = "completed" /\ ResultsComputed(e)) =>
           Cardinality(CreatedTasks(e)) = Cardinality(OperatorNodes(e))

\* C4: no task id is returned by two fetches.
C4_FetchedAtMostOnce ==
  \A t \in DOMAIN fetched : fetched[t] <= 1

\* C5: a submit for a task that is already completed is rejected and leaves
\* the task table and the expression table as they were.
C5_SecondSubmitRejected ==
  [][\A id \in RequestIds, v \in SubmitValues :
       (/\ id \in DOMAIN tasks
        /\ tasks[id].completed
        /\ postTaskHandler(id, v, TRUE))
         => /\ resp'.code # 200
            /\ tasks' = tasks
            /\ expressions' = expressions]_vars

\* the answer of postTaskHandler when the database fails
InternalFailure(id) == Response("postTask", 500, id, "Failed to complete task")

\* C6: a submit for a task id that never existed is answered with a
\* not-found outcome that differs from the answer to an internal failure,
\* and changes nothing.
C6_UnknownTaskNotFound ==
  [][\A id \in RequestIds, v \in SubmitValues :
       (id \notin DOMAIN tasks /\ postTaskHandler(id, v, TRUE))
         => /\ resp' # InternalFailure(id)
            /\ UNCHANGED <<expressions, tasks, exprStore, exprAST, taskStore,
                           taskQueue, taskCounter>>]_vars

\* C7: the result of an expression is set exactly when its status is completed.
C7_ResultIffCompleted ==
  \A e \in DOMAIN expressions :
    (expressions[e].result # NULL) <=> (expressions[e].status = "completed")

\* C8: completed and error are terminal: no step changes the status or the
\* result of an expression that has one of them.
C8_TerminalStatus ==
  [][\A e \in DOMAIN expressions :
       expressions[e].status \in {"completed", "error"} =>
         /\ expressions'[e].status = expressions[e].status
         /\ expressions'[e].result = expressions[e].result]_vars

\* a completed expression on which a later operation has acted: a task row
\* was inserted for it after it was marked completed
C8_Witness ==
  \E e \in DOMAIN expressions :
    /\ expressions[e].status = "completed"
    /\ \E t \in DBTasksOf(e) : ~tasks[t].completed

\* C9: an expression whose text does not parse has status error once
\* calculateHandler has returned, and no task exists for it.
C9_ParseErrorStatus ==
  \A e \in DOMAIN expressions :
    ~Valid(e) =>
      /\ expressions[e].status = "error"
      /\ CreatedTasks(e) = {}
      /\ DBTasksOf(e) = {}

\* worker w is about to compute a division by zero that belongs to e
ComputesDivisionByZero(w, e) ==
  IF pc[w] = "Calculate"
  THEN /\ wtask[w].Operation = "/" /\ wtask[w].Arg2 = 0
       /\ tasks[wtask[w].Id].expression_id = e
  ELSE FALSE

\* C10: once a worker has computed the division task of an expression that
\* divides by zero, the expression reaches status error.
C10_DivisionByZeroError ==
  \A e \in ExprIds, w \in Workers :
    ComputesDivisionByZero(w, e) ~> (Status(e) = "error")

\* a stored task whose computation fails in the worker
FailingTask(t) == tasks[t].operation = "/" /\ tasks[t].arg2 = 0

C12_GetExpressionFindsIt ==
  [][\A id \in DOMAIN expressions :
       expressionIDHandler(id) =>
         /\ resp'.code = 200
         /\ resp'.body = Some([Status |-> expressions[id].status,
                               Result |-> expressions[id].result])]_vars

\* C13: a fetch returns the open task that was inserted first, whatever
\* expression it belongs to.
C13_FetchOldestPendingTask ==
  [][(getTaskHandler /\ resp'.code = 200) =>
       \A j \in PendingRows(tasks) : resp'.id <= j]_vars

\* C14: a fetch that finds no task answers with a no-task outcome that is
\* not the internal error and changes nothing, and a worker whose fetch finds
\* no task goes to the sleep of an empty answer.
C14_EmptyFetchIsNotAnError ==
  [][/\ (getTaskHandler /\ PendingRows(tasks) = {}) =>
          /\ resp'.code # 500
          /\ UNCHANGED <<expressions, tasks, taskStore, taskQueue, taskCounter>>
     /\ \A w \in Workers :
          (WorkerGetTask(w) /\ PendingRows(tasks) = {}) =>
            /\ pc'[w] = "SleepEmpty"
            /\ UNCHANGED <<expressions, tasks, taskStore, taskQueue, taskCounter>>]_vars

\* C15: no node of an AST has two tasks, and running the decomposer again on
\* the AST of an expression creates no task and changes nothing.
C15_OneTaskPerNode ==
  /\ \A t1, t2 \in DOMAIN taskStore :
       (/\ taskStore[t1].ExprID = taskStore[t2].ExprID
        /\ taskStore[t1].Node = taskStore[t2].Node) => t1 = t2
  /\ \A e \in DOMAIN exprAST :
       exprAST[e].root # 0 =>
         LET st == Tasks(Config, e, exprAST[e], taskCounter, taskStore, taskQueue)
         IN  /\ st.taskStore = taskStore
             /\ st.taskQueue = taskQueue
             /\ st.taskCounter = taskCounter
             /\ st.nodes = exprAST[e].nodes

\* an expression whose decomposition gave two tasks, one of them fetched
C15_Witness ==
  \E e \in DOMAIN expressions :
    /\ Cardinality(CreatedTasks(e)) = 2
    /\ \E t \in DBTasksOf(e) : tasks[t].started

\* C16: every task belongs to an operator node whose two children are
\* leaves, its arguments are the values of these children and its operation
\* the operator of the node; no field of a task changes once it exists,
\* neither in the orchestrator's store nor in the stored row.
C16_TaskFromLeafChildren ==
  /\ [](\A t \in DOMAIN taskStore :
          LET task == taskStore[t]
              nodes == exprAST[task.ExprID].nodes
              node == nodes[task.Node]
          IN  /\ ~node.IsLeaf
              /\ nodes[node.Left].IsLeaf /\ nodes[node.Right].IsLeaf
              /\ task.Arg1 = nodes[node.Left].Value
              /\ task.Arg2 = nodes[node.Right].Value
              /\ task.Operation = node.Operator)
  /\ [][/\ \A t \in DOMAIN taskStore : taskStore'[t] = taskStore[t]
        /\ \A r \in DOMAIN tasks :
             /\ tasks'[r].expression_id = tasks[r].expression_id
             /\ tasks'[r].arg1 = tasks[r].arg1
             /\ tasks'[r].arg2 = tasks[r].arg2
             /\ tasks'[r].operation = tasks[r].operation
             /\ tasks'[r].operation_time = tasks[r].operation_time]_vars

\* a task that was created, stored, fetched and completed
C16_Witness ==
  \E t \in persisted :
    \E r \in DOMAIN tasks :
      /\ tasks[r].expression_id = taskStore[t].ExprID
      /\ tasks[r].arg1 = taskStore[t].Arg1
      /\ tasks[r].operation = taskStore[t].Operation
      /\ tasks[r].started /\ tasks[r].completed

\* worker w has fetched task t and not yet submitted it
Holds(w, t) == pc[w] \in {"Calculate", "SubmitResult"} /\ wtask[w].Id = t

\* C17: a task that a worker has fetched and not submitted is handed to no
\* other worker.
C17_NoRedelivery ==
  \A w1, w2 \in Workers, t \in DOMAIN tasks :
    (w1 # w2 /\ Holds(w1, t)) => ~Holds(w2, t)

\* C18: every created task has a strictly positive duration.
C18_PositiveDuration ==
  \A t \in DOMAIN taskStore : taskStore[t].OperationTime > 0

\* C19: the list of a user holds exactly the expressions of that user, each
\* once, the most recently created first.
C19_ListOwnExpressions ==
  [][\A u \in StoreUserIDs :
       expressionsHandler(u) =>
         LET list == resp'.body[1]
             own == {i \in DOMAIN expressions : expressions[i].user_id = u}
         IN  /\ {list[k].ID : k \in DOMAIN list} = own
             /\ Len(list) = Cardinality(own)
             /\ \A k \in 1..(Len(list) - 1) :
                  expressions[list[k].ID].created_at >
                    expressions[list[k + 1].ID].created_at
             /\ \A k \in DOMAIN list :
                  /\ list[k].Status = expressions[list[k].ID].status
                  /\ list[k].Expression = expressions[list[k].ID].expression]_vars

\* a list of two expressions was returned while another user has one too
C19_Witness ==
  /\ resp.handler = "expressions"
  /\ Len(resp.body[1]) = 2
  /\ \E i \in DOMAIN expressions : expressions[i].user_id # resp.body[1][1].UserID

TwoPlusA == CHOOSE i \in TextIds : Texts[i] = <<"2", "+", "a">>

TasksOfRow(r) ==
  {t \in persisted :
     /\ tasks[r].expression_id = taskStore[t].ExprID
     /\ tasks[r].arg1 = taskStore[t].Arg1
     /\ tasks[r].arg2 = taskStore[t].Arg2
     /\ tasks[r].operation = taskStore[t].Operation}

\* node n of expression e has a task whose stored row is completed
NodeCompleted(e, n) ==
  \E r \in DOMAIN tasks :
    /\ tasks[r].completed
    /\ \E t \in TasksOfRow(r) : taskStore[t].ExprID = e /\ taskStore[t].Node = n

\* the operator node that has n as a child, 0 for the root
ParentOf(nodes, n) ==
  IF \E m \in DOMAIN nodes : ~nodes[m].IsLeaf /\ n \in {nodes[m].Left, nodes[m].Right}
  THEN CHOOSE m \in DOMAIN nodes :
         ~nodes[m].IsLeaf /\ n \in {nodes[m].Left, nodes[m].Right}
  ELSE 0

SiblingOf(nodes, p, n) == IF nodes[p].Left = n THEN nodes[p].Right ELSE nodes[p].Left

\* C21: when a submit completes a fetched task and the other child of the node's
\* parent is resolved, a task for the parent is in the store and in the
\* queue in the state the submit leaves.
C21_SubmitSchedulesParent ==
  [][\A r \in DOMAIN tasks :
       (/\ tasks[r].started /\ ~tasks[r].completed /\ tasks'[r].completed
        /\ TasksOfRow(r) # {}) =>
         LET t == CHOOSE x \in TasksOfRow(r) : TRUE
             e == taskStore[t].ExprID
             nodes == exprAST[e].nodes
             p == ParentOf(nodes, taskStore[t].Node)
         IN  (/\ p # 0
              /\ LET s == SiblingOf(nodes, p, taskStore[t].Node)
                 IN  nodes[s].IsLeaf \/ NodeCompleted(e, s)')
               => \E t2 \in DOMAIN taskStore' :
                    /\ taskStore'[t2].ExprID = e
                    /\ taskStore'[t2].Node = p
                    /\ \E k \in DOMAIN taskQueue' : taskQueue'[k] = taskStore'[t2].ID]_vars

\* C22: an expression whose results were all computed by the agent is
\* completed only when every operator node of its AST has a completed task.
C22_CompletedOnlyWhenResolved ==
  \A e \in DOMAIN expressions :
    (expressions[e].status = "completed" /\ ResultsComputed(e)) =>
      \A n \in DOMAIN exprAST[e].nodes :
        ~exprAST[e].nodes[n].IsLeaf => NodeCompleted(e, n)

\* the AST of e is a single leaf
RootIsLeaf(e) == exprAST[e].root # 0 /\ exprAST[e].nodes[exprAST[e].root].IsLeaf

\* C23: no state shows an expression whose root is a leaf, or whose stored
\* tasks are all completed, with the status pending.
C23_NoPendingWithLeafRoot ==
  \A e \in DOMAIN expressions :
    /\ RootIsLeaf(e) => expressions[e].status # "pending"
    /\ (DBTasksOf(e) # {} /\ \A r \in DBTasksOf(e) : tasks[r].completed)
         => expressions[e].status # "pending"

\* C24: a task is completed only by a step that finds it fetched, and
\* neither its completion nor its fetch is undone.
C24_TaskStateMachine ==
  [][\A r \in DOMAIN tasks :
       /\ (~tasks[r].completed /\ tasks'[r].completed) => tasks[r].started
       /\ tasks[r].completed => tasks'[r].completed
       /\ tasks[r].started => tasks'[r].started]_vars

\* C25: the node of a task that was fetched and completed with value v is a
\* leaf with value v.
C25_NodeBecomesLeaf ==
  \A r \in DOMAIN tasks :
    (tasks[r].started /\ tasks[r].completed) =>
      \A t \in TasksOfRow(r) :
        LET node == exprAST[taskStore[t].ExprID].nodes[taskStore[t].Node]
        IN  node.IsLeaf /\ Some(node.Value) = tasks[r].result

IndexOf(seq, x) == CHOOSE i \in DOMAIN seq : seq[i] = x

\* C26: of two tasks of one expression, the one whose node comes first in
\* the post-order of the AST has the smaller id and stands first in the queue.
C26_PostOrderIds ==
  \A t1, t2 \in DOMAIN taskStore :
    LET e == taskStore[t1].ExprID
        order == PostOrder(exprAST[e].nodes, exprAST[e].root)
    IN  (/\ taskStore[t2].ExprID = e
         /\ IndexOf(order, taskStore[t1].Node) < IndexOf(order, taskStore[t2].Node))
          => /\ taskStore[t1].ID < taskStore[t2].ID
             /\ IndexOf(taskQueue, taskStore[t1].ID) < IndexOf(taskQueue, taskStore[t2].ID)

\* the two additions of "(1+2)*(3+4)" have their tasks
C26_Witness ==
  \E t1, t2 \in DOMAIN taskStore :
    /\ taskStore[t1].ExprID = taskStore[t2].ExprID
    /\ taskStore[t1].Arg1 = 1 /\ taskStore[t1].Arg2 = 2
    /\ taskStore[t2].Arg1 = 3 /\ taskStore[t2].Arg2 = 4

\* C27: no two tasks of the queue have the same id, and every task that was
\* put into the queue is in the store.
C27_UniqueIdsNoLostTask ==
  /\ \A i, j \in DOMAIN taskQueue : i # j => taskQueue[i] # taskQueue[j]
  /\ Cardinality(DOMAIN taskStore) = Len(taskQueue)

\* C28: a worker whose submit fails keeps the task and the result and
\* submits again after a sleep.
C28_SubmitRetried ==
  [][\A w \in Workers :
       WorkerSubmitResult(w, FALSE) =>
         /\ pc'[w] \in {"SubmitResult", "SleepError"}
         /\ wtask'[w] = wtask[w]
         /\ wresult'[w] = wresult[w]]_vars

\* C29: every task the decomposer puts into the store has a row in the
\* tasks table, where the fetch looks, in the state the decomposer leaves.
C29_EmittedTaskFetchable ==
  [][\A t \in DOMAIN taskStore' \ DOMAIN taskStore :
       \E r \in DOMAIN tasks' :
         /\ tasks'[r].expression_id = taskStore'[t].ExprID
         /\ tasks'[r].arg1 = taskStore'[t].Arg1
         /\ tasks'[r].arg2 = taskStore'[t].Arg2
         /\ tasks'[r].operation = taskStore'[t].Operation]_vars

====
